---- MODULE Spec2Model ----
(***************************************************************************)
(* The session handle of the Playwright tool plugins                       *)
(* (playwright_async_tool.py, playwright_web_search_tool.py,               *)
(* playwright_web_tool.py): the lazily created driver / browser / context  *)
(* / page chain, the operations layered on it and their result envelopes.  *)
(*                                                                         *)
(* The automation engine is the environment: every delegated call either   *)
(* returns or raises, chosen nondeterministically.  One action is one      *)
(* whole operation call; in sequential use the caller awaits its value     *)
(* (action Await) before it issues the next call.                          *)
(***************************************************************************)
EXTENDS Integers, Sequences, FiniteSets, TLC

\* Bound: how many elements a selector may match on the page.
MaxMatch == 2

\* A resource reference holds None or an engine instance.  An instance is
\* identified by its age: Old, it existed when the current call began; New,
\* the engine created it during the current call.
None == "None"

Old == "old"

New == "new"

Modules ==
    {"playwright_async_tool", "playwright_web_search_tool", "playwright_web_tool"}

Kinds == {"playwright", "browser", "context", "page"}

\* What a delegated call may raise: playwright's Error and its subclass
\* TimeoutError (imported as PlaywrightTimeoutError).
EngineErrors == {"Error", "TimeoutError"}

\* The PNG payloads a capture may return.
Images == {"png1", "png2"}

\* Values of the MAX_SCREENSHOTS valve the handle is configured with.
ValveChoices == {-1, 0, 1, 2}

\* Where a page can be: a new page is at about:blank.
Urls == {"about:blank", "https://shop.example/cart", "http://localhost:8080/app"}

\* The URLs a caller asks for and a navigation ends on.
Sites == Urls \ {"about:blank"}

VARIABLES
    module,             \* which of the three source files the handle is from
    playwright,         \* self.playwright
    browser,            \* self.browser
    context,            \* self.context
    page,               \* self.page
    _screenshot_cache,  \* self._screenshot_cache (web_search_tool only)
    MAX_SCREENSHOTS,    \* self.valves.MAX_SCREENSHOTS (web_search_tool only)
    previous,           \* how the call before the current one ended
    entry,              \* the four references as the current call found them
    trace,              \* engine calls and reference updates of the current call
    result,             \* what the current call gives back to its caller
    tasks               \* the coroutines of calls started together, if any

vars == <<module, playwright, browser, context, page, _screenshot_cache,
          MAX_SCREENSHOTS, previous, entry, trace, result, tasks>>

Handle ==
    [playwright |-> playwright, browser |-> browser,
     context |-> context, page |-> page]

-----------------------------------------------------------------------------
(* Python exception matching and the running state of one call.            *)

\* Variant: an except clause that catches the named class only.
IsInstance_ExactClass(exc, cls) == cls = exc

\* isinstance(exc, cls) for the classes the except clauses name.
IsInstance(exc, cls) ==
    \/ cls = "Exception"
    \/ cls = exc
    \/ cls = "Error" /\ exc = "TimeoutError"

\* What the engine does during one call: o.f = 0, every delegated call
\* returns; o.f = k > 0, the k-th delegated call raises o.e.
NoFault == [f |-> 0, e |-> "Error"]

Outcomes(n) == {NoFault} \cup [f : 1..n, e : EngineErrors]

\* The state a call starts in: nothing issued yet.  `url` is where the page
\* is (page.url), `args` what the caller passed, `out` the payload built so
\* far.
Begin(o) ==
    [m |-> module, h |-> Handle, cache |-> _screenshot_cache,
     tr |-> <<>>, n |-> 0, f |-> o.f, e |-> o.e, err |-> "", ready |-> FALSE,
     url |-> "about:blank", args |-> <<>>, out |-> <<>>]

\* One awaited call into the engine, on instance `on` (for a call on an
\* element handle: on the i-th match, in DOM order), with argument `arg`.
CallWith(st, name, on, i, arg) ==
    LET k == st.n + 1
        raises == k = st.f
    IN  [st EXCEPT !.n = k,
                   !.tr = Append(@, [name |-> name, on |-> on, i |-> i,
                                     out |-> IF raises THEN "raised" ELSE "returned",
                                     exc |-> IF raises THEN st.e ELSE "",
                                     arg |-> arg]),
                   !.err = IF raises THEN st.e ELSE ""]

CallOn(st, name, on, i) == CallWith(st, name, on, i, <<>>)

Call(st, name, on) == CallOn(st, name, on, 0)

\* self.<kind> = value
Assign(st, kind, value) ==
    [st EXCEPT !.h[kind] = value,
               !.tr = Append(@, [name |-> kind, on |-> value, i |-> 0,
                                 out |-> "assigned", arg |-> <<>>])]

\* A navigation the engine completed leaves the page at `dest`.
Land(st, dest) ==
    IF st.err # "" THEN st
    ELSE [st EXCEPT !.url = dest,
                    !.tr = Append(@, [name |-> "page.url", on |-> st.h.page, i |-> 0,
                                      out |-> "changed", arg |-> dest])]

\* self.page.url: a property read, which awaits nothing.
ReadUrl(st) ==
    IF st.err # "" THEN st
    ELSE [st EXCEPT !.tr = Append(@, [name |-> "page.url", on |-> st.h.page, i |-> 0,
                                      out |-> "read", arg |-> st.url])]

\* A query the engine answered found `matches`, in DOM order.
Found(st, matches) ==
    IF st.err # "" THEN st
    ELSE [st EXCEPT !.tr = Append(@, [name |-> "matches", on |-> st.h.page, i |-> 0,
                                      out |-> "found", arg |-> matches])]

\* The caller's arguments.
Given(st, args) == [st EXCEPT !.args = args]

\* The payload of the success record, once the calls it is built from
\* have returned.
Yield(st, out) == IF st.err # "" THEN st ELSE [st EXCEPT !.out = out]

RECURSIVE Calls(_, _, _)
\* Consecutive awaited calls on one instance; the first to raise ends them.
Calls(st, names, on) ==
    IF names = <<>> \/ st.err # "" THEN st
    ELSE Calls(Call(st, Head(names), on), Tail(names), on)

RECURSIVE ElementCalls(_, _, _)
\* Consecutive awaited calls on the i-th matched element.
ElementCalls(st, names, i) ==
    IF names = <<>> \/ st.err # "" THEN st
    ELSE ElementCalls(CallOn(st, Head(names), "element", i), Tail(names), i)

-----------------------------------------------------------------------------
(* _ensure_browser                                                         *)

\* A creation call: self.<kind> = await <engine creates an instance>.
Create(st, kind, name, on) ==
    LET c == Call(st, name, on)
    IN  IF c.err # "" THEN c ELSE Assign(c, kind, New)

\* Variant: the driver is started without testing self.playwright.
StartDriver_Always(st) ==
    IF st.err # "" THEN st
    ELSE Create(st, "playwright", "playwright.start", None)

\* if not self.playwright: self.playwright = await async_playwright().start()
StartDriver(st) ==
    IF st.err # "" \/ st.h.playwright # None THEN st
    ELSE Create(st, "playwright", "playwright.start", None)

\* Variant: the browser is launched without testing self.browser.
LaunchBrowser_Always(st) ==
    IF st.err # "" THEN st
    ELSE Create(st, "browser", "browser_type.launch", st.h.playwright)

\* if not self.browser: self.browser = await browser_type.launch(...)
LaunchBrowser(st) ==
    IF st.err # "" \/ st.h.browser # None THEN st
    ELSE Create(st, "browser", "browser_type.launch", st.h.playwright)

\* if not self.context: self.context = await self.browser.new_context(...),
\* then the default timeouts are set on it.
NewContext(st) ==
    IF st.err # "" \/ st.h.context # None THEN st
    ELSE LET c == Create(st, "context", "browser.new_context", st.h.browser)
         IN  Calls(c, IF st.m = "playwright_web_search_tool"
                      THEN <<"context.set_default_timeout",
                             "context.set_default_navigation_timeout">>
                      ELSE <<"context.set_default_timeout">>,
                   c.h.context)

\* Variant: the page is created only together with a context (the test of
\* self.page nested under the test of self.context).
NewPage_WithContextOnly(st) ==
    IF st.err # "" \/ st.h.page # None \/ st.h.context # New THEN st
    ELSE Create(st, "page", "context.new_page", st.h.context)

\* if not self.page: self.page = await self.context.new_page()
NewPage(st) ==
    IF st.err # "" \/ st.h.page # None THEN st
    ELSE Create(st, "page", "context.new_page", st.h.context)

_ensure_browser(st) ==
    LET r == NewPage(NewContext(LaunchBrowser(StartDriver(st))))
    IN  [r EXCEPT !.ready = (r.err = "")]

-----------------------------------------------------------------------------
(* Result envelopes                                                        *)

NoResult ==
    [op |-> "__init__", raised |-> FALSE, json |-> FALSE, status |-> "",
     keys |-> {}, error |-> "", ensure |-> "not called",
     args |-> <<>>, payload |-> <<>>, cached |-> <<>>]

\* str(e) of what the engine raised.
Str(exc) ==
    CASE exc = "TimeoutError" -> "Timeout 30000ms exceeded."
      [] exc = "Error"        -> "Error: engine call failed"
      [] OTHER                -> exc

\* json.dumps({"status": "success", ...}) with the given keys.
Success(keys) ==
    [raised |-> FALSE, json |-> TRUE, status |-> "success", keys |-> keys,
     error |-> ""]

\* Variant: an error envelope built without its status entry.
Failure_NoStatus(keys, error) ==
    [raised |-> FALSE, json |-> TRUE, status |-> "", keys |-> keys \ {"status"},
     error |-> error]

\* json.dumps({"status": "error", ...}) with the given keys.
Failure(keys, error) ==
    [raised |-> FALSE, json |-> TRUE, status |-> "error", keys |-> keys,
     error |-> error]

\* A plain string handed back as it is.
Text ==
    [raised |-> FALSE, json |-> FALSE, status |-> "", keys |-> {}, error |-> ""]

\* The exception leaves the operation.
Raised(exc) ==
    [raised |-> TRUE, json |-> FALSE, status |-> "", keys |-> {}, error |-> exc]

\* Variant: wait_for_element with the generic clause only.
Handlers_GenericOnly(m, op) ==
    <<[cls |-> "Exception", keys |-> {"status", "error", "message"},
       error |-> "str(e)"]>>

\* The except clauses of an operation, in order.
Handlers(m, op) ==
    CASE op = "wait_for_element" ->
            <<[cls |-> "TimeoutError", keys |-> {"status", "error", "message"},
               error |-> "Timeout"],
              [cls |-> "Exception", keys |-> {"status", "error", "message"},
               error |-> "str(e)"]>>
      [] op \in {"get_page_text", "get_page_html"} ->
            <<[cls |-> "Exception", keys |-> {"status", "error"},
               error |-> "str(e)"]>>
      [] OTHER ->
            <<[cls |-> "Exception", keys |-> {"status", "error", "message"},
               error |-> "str(e)"]>>

RECURSIVE Except(_, _)
\* try ... except: the first clause the exception is an instance of builds
\* the error envelope; with none, the exception propagates.
Except(clauses, exc) ==
    IF clauses = <<>> THEN Raised(exc)
    ELSE LET c == Head(clauses)
         IN  IF IsInstance(exc, c.cls)
             THEN Failure(c.keys, IF c.error = "str(e)" THEN Str(exc) ELSE c.error)
             ELSE Except(Tail(clauses), exc)

Idle == result.op = "__init__"

\* Variant: the except clause discards the page.
Leaves_DropPage(st) == IF st.err # "" THEN [st.h EXCEPT !.page = None] ELSE st.h

\* The references a finished try block, and the except clause that may
\* follow it, leave in the handle: no except clause assigns one.
Leaves(st) == st.h

\* The state an operation leaves and the value it returns: `st` is the run
\* of its try block, `ok` what the block returns when nothing raised.
Return(op, st, ok) ==
    /\ playwright' = Leaves(st).playwright
    /\ browser' = Leaves(st).browser
    /\ context' = Leaves(st).context
    /\ page' = Leaves(st).page
    /\ _screenshot_cache' = st.cache
    /\ entry' = Handle
    /\ trace' = st.tr
    /\ result' = [op |-> op,
                  ensure |-> IF op = "close_browser" THEN "not called"
                             ELSE IF st.ready THEN "returned" ELSE "raised",
                  args |-> st.args,
                  cached |-> _screenshot_cache,
                  payload |-> IF st.err = "" THEN st.out ELSE <<>>]
                 @@ (IF st.err = "" THEN ok ELSE Except(Handlers(st.m, op), st.err))
    /\ UNCHANGED <<module, MAX_SCREENSHOTS, previous, tasks>>

\* One whole call of operation `op`: `run` is the run of its try block.
Operation(op, run, ok) == \E st \in {run} : Return(op, st, ok)

\* How a call ended, as far as the next call is concerned: it was a
\* close_browser, it returned an error envelope because a delegated call
\* raised after _ensure_browser had returned, or anything else.
Ended(r, tr) ==
    IF r.op = "close_browser" THEN "close_browser"
    ELSE IF /\ r.status = "error"
            /\ r.ensure = "returned"
            /\ tr # <<>>
            /\ tr[Len(tr)].out = "raised"
         THEN "failed"
         ELSE "other"

\* An instance once the call that created it is over.
Aged(ref) == IF ref = None THEN None ELSE Old

\* The caller receives the value of the call it awaited; the references
\* keep their instances.
Await ==
    /\ ~Idle
    /\ previous' = Ended(result, trace)
    /\ playwright' = Aged(playwright)
    /\ browser' = Aged(browser)
    /\ context' = Aged(context)
    /\ page' = Aged(page)
    /\ entry' = [k \in Kinds |-> None]
    /\ trace' = <<>>
    /\ result' = NoResult
    /\ UNCHANGED <<module, _screenshot_cache, MAX_SCREENSHOTS, tasks>>

-----------------------------------------------------------------------------
(* Operations                                                               *)

Init ==
    /\ module \in Modules
    /\ playwright = None
    /\ browser = None
    /\ context = None
    /\ page = None
    /\ _screenshot_cache = <<>>
    /\ MAX_SCREENSHOTS \in (IF module = "playwright_web_search_tool"
                            THEN ValveChoices ELSE {0})
    /\ previous = "other"
    /\ entry = [k \in Kinds |-> None]
    /\ trace = <<>>
    /\ result = NoResult
    /\ tasks = <<>>

\* The try block of an operation that awaits `names` on the page.
OnPage(o, names) ==
    LET r == _ensure_browser(Begin(o))
    IN  Calls(r, names, r.h.page)

\* The try block of an operation that awaits `names` on the context.
OnContext(o, names) ==
    LET r == _ensure_browser(Begin(o))
    IN  Calls(r, names, r.h.context)

\* The engine outcomes of a try block that issues st.n delegated calls when
\* none raises.
Fates(st) == Outcomes(st.n)

\* Variant: the record reports the URL the caller asked for.
FinalUrl_Requested(st, url) == url

\* "url": self.page.url (final_url = self.page.url in web_search_tool)
FinalUrl(st, url) == st.url

\* The try block of navigate_to_url: the engine ends the navigation of
\* page.goto(url) on `final`.  web_search_tool reads page.url after
\* page.title(), the other two modules before it.
Navigate(o, url, final) ==
    LET r == Given(_ensure_browser(Begin(o)), [url |-> url])
        g == Land(CallWith(r, "page.goto", r.h.page, 0, url), final)
        t == IF r.m = "playwright_web_search_tool"
             THEN ReadUrl(Calls(g, <<"page.title">>, g.h.page))
             ELSE Calls(ReadUrl(g), <<"page.title">>, g.h.page)
    IN  IF r.err # "" THEN r ELSE Yield(t, [url |-> FinalUrl(t, url)])

navigate_to_url ==
    /\ Idle
    /\ \E url \in Sites, final \in Sites :
         \E o \in Fates(Navigate(NoFault, url, final)) :
           Operation("navigate_to_url", Navigate(o, url, final),
                  Success({"status", "url", "title", "status_code", "message"}))

get_page_text ==
    /\ Idle
    /\ module # "playwright_web_search_tool"
    /\ \E o \in Fates(OnPage(NoFault, <<"page.evaluate">>)) :
           Operation("get_page_text", OnPage(o, <<"page.evaluate">>), Text)

get_page_html ==
    /\ Idle
    /\ module # "playwright_web_search_tool"
    /\ \E o \in Fates(OnPage(NoFault, <<"page.content">>)) :
           Operation("get_page_html", OnPage(o, <<"page.content">>), Text)

\* The declared content types, and one that is none of them.
ContentTypes == {"html", "text", "title", "url", "pdf"}

ContentCalls(content_type) ==
    CASE content_type = "html"  -> <<"page.content">>
      [] content_type = "text"  -> <<"page.evaluate">>
      [] content_type = "title" -> <<"page.title">>
      [] OTHER                  -> <<>>

\* `return content`: no branch has bound it for an undeclared content type.
ReturnContent(st, content_type) ==
    IF st.err = "" /\ content_type \notin {"html", "text", "title", "url"}
    THEN [st EXCEPT !.err = "UnboundLocalError"]
    ELSE st

get_page_content ==
    /\ Idle
    /\ module = "playwright_web_search_tool"
    /\ \E content_type \in ContentTypes :
         \E o \in Fates(OnPage(NoFault, ContentCalls(content_type))) :
           Operation("get_page_content",
                  ReturnContent(OnPage(o, ContentCalls(content_type)),
                                content_type),
                  Text)

\* Variant: the click is dispatched before the wait is registered.
ClickCalls_ClickFirst(wait_for_navigation) ==
    IF wait_for_navigation
    THEN <<"page.click", "page.expect_navigation", "navigation">>
    ELSE <<"page.click">>

\* `async with page.expect_navigation(): await page.click(...)`: entering
\* registers the wait, leaving the block awaits the navigation.
ClickCalls(wait_for_navigation) ==
    IF wait_for_navigation
    THEN <<"page.expect_navigation", "page.click", "navigation">>
    ELSE <<"page.click">>

ClickKeys(m, wait_for_navigation) ==
    IF wait_for_navigation \/ m = "playwright_web_search_tool"
    THEN {"status", "message", "navigated", "new_url"}
    ELSE {"status", "message", "navigated"}

\* The try block of click_element: the navigation the click starts ends on
\* `dest`; new_url is page.url read after the `async with` block.
Click(o, wait_for_navigation, dest) ==
    LET r == Given(_ensure_browser(Begin(o)),
                   [wait_for_navigation |-> wait_for_navigation])
        c == Calls(r, ClickCalls(wait_for_navigation), r.h.page)
        n == IF wait_for_navigation THEN ReadUrl(Land(c, dest)) ELSE c
    IN  Yield(n, [navigated |-> wait_for_navigation,
                  new_url |-> IF wait_for_navigation THEN n.url ELSE "None"])

click_element ==
    /\ Idle
    /\ \E wait_for_navigation \in BOOLEAN :
        \E dest \in (IF wait_for_navigation THEN Urls ELSE {"about:blank"}) :
         \E o \in Fates(Click(NoFault, wait_for_navigation, dest)) :
           Operation("click_element", Click(o, wait_for_navigation, dest),
                  Success(ClickKeys(module, wait_for_navigation)))

\* Variant: Enter is pressed whether or not submit is set.
FillCalls_AlwaysPress(submit) == <<"page.fill", "page.press">>

\* await self.page.fill(selector, value), then with submit
\* await self.page.press(selector, "Enter")
FillCalls(submit) ==
    IF submit THEN <<"page.fill", "page.press">> ELSE <<"page.fill">>

\* The try block of fill_input.
Fill(o, submit) ==
    Yield(Given(OnPage(o, FillCalls(submit)), [submit |-> submit]),
          [submitted |-> submit])

fill_input ==
    /\ Idle
    /\ \E submit \in BOOLEAN :
         \E o \in Fates(Fill(NoFault, submit)) :
           Operation("fill_input", Fill(o, submit),
                  Success({"status", "message", "submitted"}))

\* Variant: the matches are not cut at the limit.
SliceLen_All(n, limit) == n

\* Python's seq[:limit] on a sequence of n items keeps this many of them.
SliceLen(n, limit) ==
    IF limit >= 0 THEN (IF limit < n THEN limit ELSE n)
    ELSE (IF n + limit > 0 THEN n + limit ELSE 0)

\* The attribute lists a caller asks for.
AttrLists == {<<"text">>, <<"html", "href">>}

\* The limits a caller passes as max_elements / num_results.
Limits == {-1, 0, 1, 2}

AttrCall(attr) ==
    CASE attr = "text" -> "element.inner_text"
      [] attr = "html" -> "element.inner_html"
      [] OTHER         -> "element.get_attribute"

RECURSIVE ReadAttrs(_, _, _)
\* for attr in attributes: element_data[attr] = await element...
ReadAttrs(st, element, attrs) ==
    IF attrs = <<>> \/ st.err # "" THEN st
    ELSE ReadAttrs(CallOn(st, AttrCall(Head(attrs)), "element", element),
                   element, Tail(attrs))

RECURSIVE ExtractLoop(_, _, _, _)
\* for element in elements[:max_elements], elements i..last in DOM order
\* and results.append(element_data) once its attributes are read.
ExtractLoop(st, i, last, attrs) ==
    IF i > last \/ st.err # "" THEN st
    ELSE LET a == ReadAttrs(st, i, attrs)
         IN  ExtractLoop(Yield(a, Append(a.out, [element |-> i, attrs |-> attrs])),
                         i + 1, last, attrs)

\* The try block of extract_elements on a page where the selector matches
\* `matches` elements.
Extract(o, matches, attrs, max_elements) ==
    LET q == Found(Given(OnPage(o, <<"page.query_selector_all">>),
                         [attributes |-> attrs, max_elements |-> max_elements]),
                   matches)
        l == ExtractLoop(q, 1, SliceLen(matches, max_elements), attrs)
    IN  Yield(l, [count |-> Len(l.out), elements |-> l.out])

extract_elements ==
    /\ Idle
    /\ \E matches \in 0..MaxMatch, attrs \in AttrLists, max_elements \in Limits :
         \E o \in Fates(Extract(NoFault, matches, attrs, max_elements)) :
           Operation("extract_elements",
                  Extract(o, matches, attrs, max_elements),
                  Success(IF module = "playwright_web_search_tool"
                          THEN {"status", "count", "elements", "message"}
                          ELSE {"status", "count", "elements"}))

\* element_selector: absent, empty, or a selector.
ElementSelectors == {"None", "", "#chart"}

Truthy(s) == s \notin {"None", ""}

DataUri(png) == <<"data:image/png;base64,", png>>

\* Variant: the eviction is skipped on an empty cache.
Remember_GuardedPop(st, uri) ==
    IF st.err # "" \/ st.m # "playwright_web_search_tool" THEN st
    ELSE IF Len(st.cache) >= MAX_SCREENSHOTS /\ st.cache # <<>>
         THEN [st EXCEPT !.cache = Append(Tail(@), uri)]
         ELSE [st EXCEPT !.cache = Append(@, uri)]

\* Variant: a full cache drops its newest entry.
Remember_EvictNewest(st, uri) ==
    IF st.err # "" \/ st.m # "playwright_web_search_tool" THEN st
    ELSE IF Len(st.cache) >= MAX_SCREENSHOTS
         THEN IF st.cache = <<>>
              THEN [st EXCEPT !.err = "IndexError"]
              ELSE [st EXCEPT !.cache = Append(SubSeq(@, 1, Len(@) - 1), uri)]
         ELSE [st EXCEPT !.cache = Append(@, uri)]

\* if len(cache) >= MAX_SCREENSHOTS: cache.pop(0); cache.append(data_uri)
Remember(st, uri) ==
    IF st.err # "" \/ st.m # "playwright_web_search_tool" THEN st
    ELSE IF Len(st.cache) >= MAX_SCREENSHOTS
         THEN IF st.cache = <<>>
              THEN [st EXCEPT !.err = "IndexError"]
              ELSE [st EXCEPT !.cache = Append(Tail(@), uri)]
         ELSE [st EXCEPT !.cache = Append(@, uri)]

\* Variant: a full-page request overrides the element selector.
ElementMode_UnlessFullPage(full_page, element_selector) ==
    Truthy(element_selector) /\ ~full_page

\* if element_selector: ... else: ... (full_page plays no part in the test)
ElementMode(full_page, element_selector) == Truthy(element_selector)

\* await self.page.screenshot(type="png", full_page=full_page)
PageScreenshot(st, full_page) ==
    IF st.err # "" THEN st
    ELSE CallWith(st, "page.screenshot", st.h.page, 0, [full_page |-> full_page])

\* The try block of take_screenshot up to an early return: `found` is
\* whether query_selector finds the element, `png` what the capture holds.
Screenshot(o, full_page, element_selector, found, png) ==
    LET r == Given(_ensure_browser(Begin(o)),
                   [full_page |-> full_page, element_selector |-> element_selector])
        q == Calls(r, <<"page.query_selector">>, r.h.page)
    IN  IF ElementMode(full_page, element_selector)
        THEN IF q.err # "" \/ ~found THEN q
             ELSE Yield(Remember(ElementCalls(q, <<"element.screenshot">>, 1),
                                 DataUri(png)),
                        [image |-> DataUri(png)])
        ELSE Yield(Remember(PageScreenshot(r, full_page), DataUri(png)),
                   [image |-> DataUri(png)])

take_screenshot ==
    /\ Idle
    /\ \E full_page \in BOOLEAN, element_selector \in ElementSelectors,
          found \in BOOLEAN, png \in Images :
         \E o \in Fates(Screenshot(NoFault, full_page, element_selector, found, png)) :
           LET st == Screenshot(o, full_page, element_selector, found, png)
           IN  Operation("take_screenshot", st,
                      IF ElementMode(full_page, element_selector) /\ ~found
                      THEN Failure({"status", "message"}, "")
                      ELSE Success({"status", "image", "timestamp", "message"}))

\* json.dumps of the evaluated value raises TypeError when the value is
\* not serializable.
Dumps(st, serializable) ==
    IF st.err # "" \/ serializable THEN st ELSE [st EXCEPT !.err = "TypeError"]

execute_javascript ==
    /\ Idle
    /\ \E return_result \in (IF module = "playwright_web_search_tool"
                             THEN BOOLEAN ELSE {TRUE}),
          serializable \in BOOLEAN :
         \E o \in Fates(OnPage(NoFault, <<"page.evaluate">>)) :
           Operation("execute_javascript",
                  Dumps(OnPage(o, <<"page.evaluate">>),
                        serializable \/ ~return_result),
                  Success(IF module = "playwright_web_search_tool"
                          THEN {"status", "result", "result_type", "message"}
                          ELSE {"status", "result", "result_type"}))

wait_for_element ==
    /\ Idle
    /\ \E o \in Fates(OnPage(NoFault, <<"page.wait_for_selector">>)) :
           Operation("wait_for_element",
                  OnPage(o, <<"page.wait_for_selector">>),
                  Success({"status", "message", "state"}))

scroll_page ==
    /\ Idle
    /\ \E o \in Fates(OnPage(NoFault, <<"page.evaluate">>)) :
           Operation("scroll_page", OnPage(o, <<"page.evaluate">>),
                  Success({"status", "message", "direction"}))

get_cookies ==
    /\ Idle
    /\ module = "playwright_web_search_tool"
    /\ \E o \in Fates(OnContext(NoFault, <<"context.cookies">>)) :
           Operation("get_cookies", OnContext(o, <<"context.cookies">>),
                  Success({"status", "count", "cookies", "message"}))

\* urlparse(url).netloc: the authority of the URL, its port included.
Netloc(url) ==
    CASE url = "https://shop.example/cart" -> "shop.example"
      [] url = "http://localhost:8080/app" -> "localhost:8080"
      [] OTHER                             -> ""

\* The host named by the URL.
Hostname(url) ==
    CASE url = "https://shop.example/cart" -> "shop.example"
      [] url = "http://localhost:8080/app" -> "localhost"
      [] OTHER                             -> ""

\* domain: absent, empty, or a domain.
Domains == {"None", "", "shop.example"}

\* expires, an Optional[int]: <<>> is None, <<t>> the timestamp t.
Expiries == {<<>>, <<0>>, <<1767225600>>}

\* `if expires:` is false for None and for 0.
TruthyInt(x) == x # <<>> /\ x[1] # 0

\* An operation on a page an earlier call created finds it at `at`; a page
\* created by this call is at about:blank.
At(st, at) == IF st.h.page = None THEN st ELSE [st EXCEPT !.url = at]

\* The cookie dict handed to add_cookies; expires = <<>>: no such key.
Cookie(st, c) ==
    LET u == IF Truthy(c.domain) THEN st ELSE ReadUrl(st)
    IN  [st |-> u,
         cookie |-> [name |-> c.name, value |-> c.value, path |-> c.path,
                     domain |-> IF Truthy(c.domain) THEN c.domain
                                ELSE Netloc(u.url),
                     expires |-> IF TruthyInt(c.expires) THEN c.expires ELSE <<>>]]

\* The try block of set_cookie.
SetCookie(o, at, c) ==
    LET r == Given(_ensure_browser(At(Begin(o), at)), c)
        k == Cookie(r, c)
    IN  IF r.err # "" THEN r
        ELSE CallWith(k.st, "context.add_cookies", r.h.context, 0, k.cookie)

CookieArgs ==
    [name : {"sid"}, value : {"abc"}, path : {"/", "/app"},
     domain : Domains, expires : Expiries]

set_cookie ==
    /\ Idle
    /\ module = "playwright_web_search_tool"
    /\ \E c \in CookieArgs :
        \E at \in (IF Truthy(c.domain) \/ page = None
                   THEN {"about:blank"} ELSE Urls) :
         \E o \in Fates(SetCookie(NoFault, at, c)) :
           Operation("set_cookie", SetCookie(o, at, c),
                  Success({"status", "message"}))

get_network_requests ==
    /\ Idle
    /\ module = "playwright_web_search_tool"
    /\ \E o \in Fates(OnPage(NoFault, <<"page.on", "page.on">>)) :
           Operation("get_network_requests",
                  OnPage(o, <<"page.on", "page.on">>),
                  Success({"status", "message", "note"}))

\* What a result block of the search page holds: a title (h3), a link (a),
\* a snippet (div.VwiC3b).
BlockShapes ==
    {[title |-> TRUE, link |-> TRUE, snippet |-> TRUE],
     [title |-> TRUE, link |-> TRUE, snippet |-> FALSE],
     [title |-> FALSE, link |-> TRUE, snippet |-> TRUE]}

\* The body of the inner try for block i: results.append(...) once the
\* title, the href and the snippet are read.
Block(st, i, shape) ==
    LET q == ElementCalls(st, <<"result.query_selector", "result.query_selector",
                                "result.query_selector">>, i)
        r == ElementCalls(q, IF shape.snippet
                             THEN <<"element.inner_text", "element.get_attribute",
                                    "element.inner_text">>
                             ELSE <<"element.inner_text", "element.get_attribute">>,
                          i)
    IN  IF shape.title /\ shape.link
        THEN Yield(r, Append(r.out, [block |-> i, snippet |-> shape.snippet]))
        ELSE q

RECURSIVE SearchLoop_Abort(_, _, _, _)
\* Variant: a block that raises ends the search.
SearchLoop_Abort(st, i, last, blocks) ==
    IF i > last \/ st.err # "" THEN st
    ELSE SearchLoop_Abort(Block(st, i, blocks[i]), i + 1, last, blocks)

RECURSIVE SearchLoop(_, _, _, _)
\* for result in search_results[:num_results]: try: ... except: continue
SearchLoop(st, i, last, blocks) ==
    IF i > last \/ st.err # "" THEN st
    ELSE SearchLoop([Block(st, i, blocks[i]) EXCEPT !.err = ""], i + 1, last, blocks)

\* The settle delay: page.wait_for_timeout(1000), or asyncio.sleep(1) in
\* web_search_tool.
SearchCalls(m) ==
    IF m = "playwright_web_search_tool"
    THEN <<"page.goto", "page.query_selector_all">>
    ELSE <<"page.goto", "page.wait_for_timeout", "page.query_selector_all">>

\* The try block of search_google on a page that holds `blocks`.
Search(o, blocks, num_results) ==
    LET q == Found(Given(OnPage(o, SearchCalls(module)),
                         [num_results |-> num_results]),
                   blocks)
        l == SearchLoop(q, 1, SliceLen(Len(blocks), num_results), blocks)
    IN  Yield(l, [count |-> Len(l.out), results |-> l.out])

BlockLists == UNION {[1..n -> BlockShapes] : n \in 0..MaxMatch}

search_google ==
    /\ Idle
    /\ \E blocks \in BlockLists, num_results \in Limits :
         \E o \in Fates(Search(NoFault, blocks, num_results)) :
           Operation("search_google", Search(o, blocks, num_results),
                  Success({"status", "query", "count", "results"}
                          \cup (IF module = "playwright_web_search_tool"
                                THEN {"message"} ELSE {})))

\* Variant: the reference is set to None whether or not its release raised.
Release_NullsAnyway(st, kind, name) ==
    IF st.err # "" \/ st.h[kind] = None THEN st
    ELSE LET c == Call(st, name, st.h[kind])
         IN  [Assign(c, kind, None) EXCEPT !.err = c.err]

\* Variant: the release is issued without testing the reference.
Release_Unconditional(st, kind, name) ==
    IF st.err # "" THEN st
    ELSE LET c == Call(st, name, st.h[kind])
         IN  IF c.err # "" THEN c ELSE Assign(c, kind, None)

\* if self.<kind>: await self.<kind>.close(); self.<kind> = None
Release(st, kind, name) ==
    IF st.err # "" \/ st.h[kind] = None THEN st
    ELSE LET c == Call(st, name, st.h[kind])
         IN  IF c.err # "" THEN c ELSE Assign(c, kind, None)

\* Variant: the cache is cleared even when a release raised.
ClearCache_Always(st) ==
    IF st.m # "playwright_web_search_tool" THEN st
    ELSE [st EXCEPT !.cache = <<>>]

\* self._screenshot_cache.clear()
ClearCache(st) ==
    IF st.err # "" \/ st.m # "playwright_web_search_tool" THEN st
    ELSE [st EXCEPT !.cache = <<>>]

\* Variant: the context is closed before the page.
Close_ContextFirst(o) ==
    ClearCache(
      Release(
        Release(
          Release(
            Release(Begin(o), "context", "context.close"),
            "page", "page.close"),
          "browser", "browser.close"),
        "playwright", "playwright.stop"))

\* Variant: the chain is released from the driver down.
Close_DriverFirst(o) ==
    ClearCache(
      Release(
        Release(
          Release(
            Release(Begin(o), "playwright", "playwright.stop"),
            "browser", "browser.close"),
          "context", "context.close"),
        "page", "page.close"))

\* The try block of close_browser.
Close(o) ==
    ClearCache(
      Release(
        Release(
          Release(
            Release(Begin(o), "page", "page.close"),
            "context", "context.close"),
          "browser", "browser.close"),
        "playwright", "playwright.stop"))

close_browser ==
    /\ Idle
    /\ \E o \in Fates(Close(NoFault)) :
           Operation("close_browser", Close(o), Success({"status", "message"}))

Next ==
    \/ navigate_to_url
    \/ get_page_text
    \/ get_page_html
    \/ get_page_content
    \/ click_element
    \/ fill_input
    \/ extract_elements
    \/ take_screenshot
    \/ execute_javascript
    \/ wait_for_element
    \/ scroll_page
    \/ get_cookies
    \/ set_cookie
    \/ search_google
    \/ get_network_requests
    \/ close_browser
    \/ Await

Spec == Init /\ [][Next]_vars

\* The host changes the MAX_SCREENSHOTS valve between two calls.
update_valves ==
    /\ Idle
    /\ module = "playwright_web_search_tool"
    /\ \E v \in ValveChoices \ {MAX_SCREENSHOTS} : MAX_SCREENSHOTS' = v
    /\ UNCHANGED <<module, playwright, browser, context, page, _screenshot_cache,
                   previous, entry, trace, result, tasks>>

\* The handle with a valve that changes during its lifetime.
ValveNext == Next \/ update_valves

ValveSpec == Init /\ [][ValveNext]_vars

-----------------------------------------------------------------------------
(* Properties                                                               *)

\* The call under way is an operation on the page or context, not a teardown.
Operated == ~Idle /\ result.op # "close_browser"

\* A step that is one whole operation call.
OperationStep == Idle /\ ~Idle'

\* Some delegated call of the current call raised.
Faulted == \E i \in DOMAIN trace : trace[i].out = "raised"

\* The returned value is a serialized record with a status discriminator.
Envelope ==
    /\ result.json
    /\ "status" \in result.keys
    /\ result.status \in {"success", "error"}

AllSet(h) == \A k \in Kinds : h[k] # None

AllNone(h) == \A k \in Kinds : h[k] = None

CreationCalls ==
    [playwright |-> "playwright.start", browser |-> "browser_type.launch",
     context |-> "browser.new_context", page |-> "context.new_page"]

ReleaseCalls ==
    [playwright |-> "playwright.stop", browser |-> "browser.close",
     context |-> "context.close", page |-> "page.close"]

\* How often the engine received the call `name` during a call.
Count(tr, name) == Cardinality({i \in DOMAIN tr : tr[i].name = name})

\* The resources owned, directly or not, by a resource of kind k.
Below(k) ==
    CASE k = "playwright" -> {"browser", "context", "page"}
      [] k = "browser"    -> {"context", "page"}
      [] k = "context"    -> {"page"}
      [] k = "page"       -> {}

\* C1: no operation raises to its caller: whatever delegated call raises,
\* one of _ensure_browser included, the call returns a value.
C1_NeverRaises == ~result.raised

\* An operation whose _ensure_browser raised and which returned an envelope.
C1_Witness ==
    /\ Operated
    /\ result.ensure = "raised"
    /\ ~result.raised
    /\ result.status = "error"

ContentOps == {"get_page_text", "get_page_html", "get_page_content"}

C3_EnsureSetsAll ==
    (Operated /\ result.ensure = "returned") => AllSet(Handle)

\* _ensure_browser returned on a handle that a failed launch or a failed
\* close_browser had left with a context and no page.
C3_Witness ==
    /\ Operated
    /\ result.ensure = "returned"
    /\ entry.context # None
    /\ entry.page = None

\* C4: an operation whose _ensure_browser returns issues each of the four
\* creation calls exactly once on a handle with no reference set, and on a
\* handle with all four set issues none and changes no reference.
C4_Step ==
    (OperationStep /\ result'.op # "close_browser" /\ result'.ensure = "returned") =>
        /\ AllNone(Handle) =>
               \A k \in Kinds : Count(trace', CreationCalls[k]) = 1
        /\ AllSet(Handle) =>
               /\ \A k \in Kinds : Count(trace', CreationCalls[k]) = 0
               /\ \A i \in DOMAIN trace' : trace'[i].out # "assigned"
               /\ Handle' = Handle

C4_CreatedOnce == [][C4_Step]_vars

\* An operation ran on the four instances an earlier call had created.
C4_Witness ==
    /\ Operated
    /\ result.ensure = "returned"
    /\ \A k \in Kinds : entry[k] = Old
    /\ result.status = "success"

\* C5 as stated: after any close_browser, the next operation creates a new
\* driver, browser, context and page, none of them an instance that existed
\* before the close, and issues its delegated calls on the new page.
C5_FreshAfterClose ==
    (/\ Operated
     /\ previous = "close_browser"
     /\ result.ensure = "returned") =>
        /\ \A k \in Kinds : Handle[k] = New
        /\ \A k \in Kinds : Count(trace, CreationCalls[k]) = 1
        /\ \A i \in DOMAIN trace : trace[i].on # Old

\* C6 as stated: after close_browser returns, with a success or an error
\* envelope, all four references are None.
C6_AllNoneAfterClose == result.op = "close_browser" => AllNone(Handle)

\* C7: close_browser releases page, context, browser, driver in that order:
\* a release is issued only after the release of every resource below it
\* that the handle held has returned, and a reference is set to None only
\* right after its own release returned.
C7_ReverseTeardown ==
    result.op = "close_browser" =>
        /\ \A i \in DOMAIN trace : \A k \in Kinds :
             /\ (trace[i].name = ReleaseCalls[k]) =>
                    /\ trace[i].on = entry[k]
                    /\ \A l \in Below(k) :
                         (entry[l] # None) =>
                             \E j \in 1..(i - 1) :
                                 /\ trace[j].name = ReleaseCalls[l]
                                 /\ trace[j].out = "returned"
             /\ (trace[i].name = k /\ trace[i].out = "assigned") =>
                    /\ trace[i].on = None
                    /\ i > 1
                    /\ trace[i - 1].name = ReleaseCalls[k]
                    /\ trace[i - 1].out = "returned"
        /\ \A k \in Kinds :
             (Handle[k] # entry[k]) =>
                 \E i \in DOMAIN trace :
                     trace[i].name = k /\ trace[i].out = "assigned"

\* close_browser released a complete chain.
C7_Witness ==
    /\ result.op = "close_browser"
    /\ AllSet(entry)
    /\ result.status = "success"
    /\ Len(trace) = 8

\* C8: in sequential use the references always form an ownership chain: a
\* page only with a context, a context only with a browser, a browser only
\* with a driver.
C8_OwnershipChain ==
    /\ page # None => context # None
    /\ context # None => browser # None
    /\ browser # None => playwright # None

\* close_browser returned an error envelope after it had released the page,
\* and a launch failed after the driver had started.
C8_Witness ==
    \/ /\ result.op = "close_browser"
       /\ result.status = "error"
       /\ entry.page # None
       /\ page = None
       /\ context # None
    \/ /\ Operated
       /\ result.ensure = "raised"
       /\ playwright # None
       /\ browser = None

\* C9 as stated: every error result holds status 'error', an 'error' field
\* and a 'message' field.
C9_ErrorFields ==
    result.status = "error" => {"status", "error", "message"} \subseteq result.keys

\* C10: an operation that returns an error envelope because a delegated
\* call raised after _ensure_browser had returned keeps the references as
\* _ensure_browser left them (those it found, and a new instance for each
\* one missing), and the next operation runs on those four instances and
\* creates none.
C10_Step ==
    /\ (/\ OperationStep
        /\ result'.op # "close_browser"
        /\ result'.ensure = "returned"
        /\ result'.status = "error") =>
           \A k \in Kinds :
               Handle'[k] = (IF Handle[k] = None THEN New ELSE Handle[k])
    /\ (/\ OperationStep
        /\ previous = "failed"
        /\ result'.op # "close_browser") =>
           /\ AllSet(Handle)
           /\ Handle' = Handle
           /\ result'.ensure = "returned"
           /\ \A k \in Kinds : Count(trace', CreationCalls[k]) = 0
           /\ \A i \in DOMAIN trace' : trace'[i].on \in {Handle.page, Handle.context, "element"}

C10_ErrorKeepsHandle == [][C10_Step]_vars

\* The operation after a failed one succeeded on the same instances.
C10_Witness ==
    /\ Operated
    /\ previous = "failed"
    /\ AllSet(entry)
    /\ result.status = "success"

\* Position of the first event `name` with outcome `out` in the current call,
\* 0 when there is none.
First(name, out) ==
    LET hits == {i \in DOMAIN trace : trace[i].name = name /\ trace[i].out = out}
    IN  IF hits = {} THEN 0 ELSE CHOOSE i \in hits : \A j \in hits : i <= j

\* Position of the last such event, 0 when there is none.
Last(name, out) ==
    LET hits == {i \in DOMAIN trace : trace[i].name = name /\ trace[i].out = out}
    IN  IF hits = {} THEN 0 ELSE CHOOSE i \in hits : \A j \in hits : i >= j

\* C11: click_element with wait_for_navigation=true registers the wait for
\* navigation before it dispatches the click, returns success only after
\* that wait has completed, and reports navigated = true with as new_url
\* the page URL read after the navigation.
C11_WaitBeforeClick ==
    (result.op = "click_element" /\ result.ensure = "returned"
     /\ result.args.wait_for_navigation) =>
        /\ \A i \in DOMAIN trace :
             trace[i].name = "page.click" =>
                 \E j \in 1..(i - 1) :
                     /\ trace[j].name = "page.expect_navigation"
                     /\ trace[j].out = "returned"
        /\ result.status = "success" =>
             /\ First("page.click", "returned") > 0
             /\ First("page.click", "returned") < First("navigation", "returned")
             /\ First("navigation", "returned") < Last("page.url", "changed")
             /\ Last("page.url", "changed") < Last("page.url", "read")
             /\ result.payload.navigated
             /\ result.payload.new_url = trace[Last("page.url", "read")].arg
             /\ result.payload.new_url = trace[Last("page.url", "changed")].arg

\* A click that waited for its navigation moved a page an earlier call had
\* created.
C11_Witness ==
    /\ result.op = "click_element"
    /\ result.args.wait_for_navigation
    /\ result.status = "success"
    /\ entry.page = Old
    /\ result.payload.new_url = "https://shop.example/cart"

\* C12: a successful navigate_to_url reports as url the URL the page is at
\* once the navigation has completed, not the URL it was asked for.
C12_PostRedirectUrl ==
    (result.op = "navigate_to_url" /\ result.status = "success") =>
        /\ First("page.goto", "returned") > 0
        /\ trace[First("page.goto", "returned")].arg = result.args.url
        /\ First("page.goto", "returned") < Last("page.url", "changed")
        /\ Last("page.url", "changed") < Last("page.url", "read")
        /\ result.payload.url = trace[Last("page.url", "changed")].arg

\* A navigation that was redirected: it ended on another URL than asked.
C12_Witness ==
    /\ result.op = "navigate_to_url"
    /\ result.status = "success"
    /\ result.payload.url # result.args.url

\* How many elements the selector of the current call matched.
Matches == trace[Last("matches", "found")].arg

C14_ElementModeFirst ==
    (result.op = "take_screenshot" /\ result.ensure = "returned") =>
        /\ Truthy(result.args.element_selector) =>
             /\ Count(trace, "page.screenshot") = 0
             /\ result.status = "success" =>
                    /\ Count(trace, "element.screenshot") = 1
                    /\ First("page.query_selector", "returned")
                           < First("element.screenshot", "returned")
        /\ \A i \in DOMAIN trace :
             trace[i].name = "page.screenshot" =>
                 /\ ~Truthy(result.args.element_selector)
                 /\ trace[i].arg.full_page = result.args.full_page
        /\ ~Truthy(result.args.element_selector) =>
             /\ Count(trace, "page.screenshot") = 1
             /\ Count(trace, "element.screenshot") = 0

\* A capture asked for with both full_page and an element selector.
C14_Witness ==
    /\ result.op = "take_screenshot"
    /\ result.args.full_page
    /\ result.args.element_selector = "#chart"
    /\ result.status = "success"
    /\ Count(trace, "element.screenshot") = 1

\* C15: when the selector does not reach the requested state within the
\* timeout (page.wait_for_selector raises TimeoutError), wait_for_element
\* returns an error result whose error field is exactly 'Timeout', not the
\* text of the exception.
C15_TimeoutKind ==
    (/\ result.op = "wait_for_element"
     /\ \E i \in DOMAIN trace :
            /\ trace[i].name = "page.wait_for_selector"
            /\ trace[i].out = "raised"
            /\ trace[i].exc = "TimeoutError") =>
        /\ Envelope
        /\ result.status = "error"
        /\ result.error = "Timeout"
        /\ result.error # Str("TimeoutError")
        /\ {"status", "error", "message"} \subseteq result.keys

\* The wait timed out on a ready handle.
C15_Witness ==
    /\ result.op = "wait_for_element"
    /\ result.ensure = "returned"
    /\ Len(trace) > 0
    /\ trace[Len(trace)].name = "page.wait_for_selector"
    /\ trace[Len(trace)].out = "raised"
    /\ trace[Len(trace)].exc = "TimeoutError"

\* The last n items of a sequence.
LastN(seq, n) == SubSeq(seq, Len(seq) - n + 1, Len(seq))

Min(a, b) == IF a < b THEN a ELSE b

\* C16: with MAX_SCREENSHOTS = N >= 1 the cache holds the data URIs of the
\* most recent min(k, N) of the k captures made since the handle was created
\* or last successfully closed, in capture order.  Stated call by call: the
\* cache starts empty; a take_screenshot that returns success on a cache of
\* at most N entries appends its data URI and keeps the last N, so a full
\* cache loses its oldest entry and nothing else; a close_browser that
\* returns success empties the cache; nothing else changes it.
C16_Step ==
    LET snap == result'.op = "take_screenshot" /\ result'.status = "success"
        shut == result'.op = "close_browser" /\ result'.status = "success"
    IN  IF OperationStep /\ module = "playwright_web_search_tool" /\ snap
        THEN (MAX_SCREENSHOTS >= 1 /\ Len(_screenshot_cache) <= MAX_SCREENSHOTS) =>
                 _screenshot_cache' =
                     LastN(Append(_screenshot_cache, result'.payload.image),
                           Min(Len(_screenshot_cache) + 1, MAX_SCREENSHOTS))
        ELSE IF OperationStep /\ module = "playwright_web_search_tool" /\ shut
        THEN _screenshot_cache' = <<>>
        ELSE _screenshot_cache' = _screenshot_cache

C16_CacheIsFifo == (_screenshot_cache = <<>>) /\ [][C16_Step]_vars

\* A capture into a full cache of two different entries evicted the older.
C16_Witness ==
    /\ result.op = "take_screenshot"
    /\ result.status = "success"
    /\ MAX_SCREENSHOTS = 2
    /\ Len(result.cached) = 2
    /\ result.cached[1] # result.cached[2]
    /\ _screenshot_cache = <<result.cached[2], result.payload.image>>

\* C17 as stated: in every reachable state, whatever take_screenshot and
\* close_browser calls were made and however the valve was changed between
\* calls, the cache holds at most MAX_SCREENSHOTS entries (taken for a valve
\* that is not negative: no cache is within a negative capacity).
C17_CacheWithinValve ==
    MAX_SCREENSHOTS >= 0 => Len(_screenshot_cache) <= MAX_SCREENSHOTS

\* The result blocks the page of the current search holds.
Blocks == trace[Last("matches", "found")].arg

\* The blocks among the first n that have a title and a link and whose
\* extraction did not raise.
Extracted(n) ==
    {i \in 1..Min(n, Len(Blocks)) :
        /\ Blocks[i].title /\ Blocks[i].link
        /\ ~\E j \in DOMAIN trace :
               trace[j].on = "element" /\ trace[j].i = i /\ trace[j].out = "raised"}

\* C18: in search_google (num_results >= 0) a result block whose extraction
\* raises is skipped and the blocks after it are still processed: once the
\* result page is loaded and queried the search returns success, with one
\* record per block among the first num_results that has a title and a link
\* and did not raise, in page order, hence at most num_results records.
C18_FailedBlockSkipped ==
    (/\ result.op = "search_google"
     /\ result.args.num_results >= 0
     /\ Last("matches", "found") > 0) =>
        LET n == result.args.num_results
            results == result.payload.results
        IN  /\ result.status = "success"
            /\ \A i \in 1..Min(n, Len(Blocks)) :
                   \E j \in DOMAIN trace : trace[j].on = "element" /\ trace[j].i = i
            /\ Len(results) = Cardinality(Extracted(n))
            /\ result.payload.count = Len(results)
            /\ Len(results) <= n
            /\ \A k \in DOMAIN results :
                   /\ results[k].block \in Extracted(n)
                   /\ results[k].snippet = Blocks[results[k].block].snippet
                   /\ \A l \in DOMAIN results :
                          k < l => results[k].block < results[l].block

\* The first block raised and the second is in the results.
C18_Witness ==
    /\ result.op = "search_google"
    /\ result.status = "success"
    /\ \E j \in DOMAIN trace :
           trace[j].on = "element" /\ trace[j].i = 1 /\ trace[j].out = "raised"
    /\ Len(result.payload.results) = 1
    /\ result.payload.results[1].block = 2

\* C19: in fill_input the Enter keypress is sent if and only if submit is
\* true and the fill returned, and then strictly after the fill; when the
\* fill raises no keypress is sent and an error envelope is returned.
C19_PressAfterFill ==
    (result.op = "fill_input" /\ result.ensure = "returned") =>
        /\ Count(trace, "page.fill") = 1
        /\ Count(trace, "page.press") <= 1
        /\ Count(trace, "page.press") = 1 <=>
               (result.args.submit /\ First("page.fill", "returned") > 0)
        /\ \A i \in DOMAIN trace :
               trace[i].name = "page.press" =>
                   /\ First("page.fill", "returned") > 0
                   /\ First("page.fill", "returned") < i
        /\ First("page.fill", "raised") > 0 =>
               /\ Count(trace, "page.press") = 0
               /\ Envelope
               /\ result.status = "error"

\* A fill with submit pressed Enter after the fill had returned.
C19_Witness ==
    /\ result.op = "fill_input"
    /\ result.args.submit
    /\ result.status = "success"
    /\ First("page.fill", "returned") > 0
    /\ First("page.fill", "returned") < First("page.press", "returned")

\* C20 as stated: set_cookie hands the engine a cookie whose domain is the
\* caller's domain when one is supplied and otherwise the host of the URL
\* the page is at; its name, value and path are those supplied; it has an
\* expiry exactly when the caller supplied one.
C20_CookieAsSupplied ==
    result.op = "set_cookie" =>
        \A i \in DOMAIN trace :
            trace[i].name = "context.add_cookies" =>
                /\ trace[i].arg.name = result.args.name
                /\ trace[i].arg.value = result.args.value
                /\ trace[i].arg.path = result.args.path
                /\ trace[i].arg.domain =
                       IF Truthy(result.args.domain) THEN result.args.domain
                       ELSE Hostname(trace[Last("page.url", "read")].arg)
                /\ trace[i].arg.expires = result.args.expires

\* Teardown order: page, context, browser, driver.
Teardown == <<"page", "context", "browser", "playwright">>

\* Creation order: driver, browser, context, page.
Startup == <<"playwright", "browser", "context", "page">>

\* The delegated calls of the current call, without the reference updates
\* and the engine's answers.
Issued == SelectSeq(trace, LAMBDA e : e.out \in {"returned", "raised"})

\* C23: when the k-th release inside close_browser raises, close_browser
\* returns an error envelope, the references released before it are None,
\* and the reference whose release raised and every one after it in
\* teardown order are unchanged and not released; a later close_browser
\* starts at the first reference still set, the one whose release raised.
C23_CloseAbortsAtFailure ==
    result.op = "close_browser" =>
        /\ \A k \in 1..4 :
             (\E i \in DOMAIN trace :
                 trace[i].name = ReleaseCalls[Teardown[k]] /\ trace[i].out = "raised") =>
                 /\ Envelope
                 /\ result.status = "error"
                 /\ \A j \in 1..(k - 1) : Handle[Teardown[j]] = None
                 /\ \A j \in k..4 :
                        /\ Handle[Teardown[j]] = entry[Teardown[j]]
                        /\ j > k => Count(trace, ReleaseCalls[Teardown[j]]) = 0
                 /\ Handle[Teardown[k]] # None
        /\ \A k \in 1..4 :
             (/\ entry[Teardown[k]] # None
              /\ \A j \in 1..(k - 1) : entry[Teardown[j]] = None) =>
                 /\ Issued # <<>>
                 /\ Issued[1].name = ReleaseCalls[Teardown[k]]
                 /\ Issued[1].on = entry[Teardown[k]]

\* A close_browser resumed at context.close after an earlier close_browser
\* had released the page and failed there.
C23_Witness ==
    /\ result.op = "close_browser"
    /\ previous = "close_browser"
    /\ entry.page = None
    /\ entry.context = Old
    /\ Issued[1].name = "context.close"
    /\ Issued[Len(Issued)].name = "browser.close"
    /\ Issued[Len(Issued)].out = "raised"
    /\ context = None
    /\ browser = Old

\* C24 as stated: in extract_elements a failure while reading an attribute
\* of a matched element does not abort the batch: the operation returns
\* success with the records of the other elements within the limit.
C24_AttributeFailureIsolated ==
    (/\ result.op = "extract_elements"
     /\ \E j \in DOMAIN trace : trace[j].on = "element" /\ trace[j].out = "raised") =>
        /\ result.status = "success"
        /\ \A i \in 1..SliceLen(Matches, result.args.max_elements) :
               (~\E j \in DOMAIN trace :
                    trace[j].on = "element" /\ trace[j].i = i /\ trace[j].out = "raised")
               => \E k \in DOMAIN result.payload.elements :
                      result.payload.elements[k].element = i

\* The position in creation order of the first reference the current call
\* found missing, 5 when it found all four.
FirstMissing ==
    IF \A k \in 1..4 : entry[Startup[k]] # None THEN 5
    ELSE CHOOSE k \in 1..4 :
             /\ entry[Startup[k]] = None
             /\ \A j \in 1..(k - 1) : entry[Startup[j]] # None

\* C25: when _ensure_browser fails at a creation step, the references
\* created before that step stay set and the later ones stay None; the
\* _ensure_browser of the next operation creates none of those already
\* set and starts at the step that failed.
C25_PartialEnsureKept ==
    Operated =>
        /\ \A k \in 1..4 :
             (\E i \in DOMAIN trace :
                 trace[i].name = CreationCalls[Startup[k]] /\ trace[i].out = "raised") =>
                 /\ result.ensure = "raised"
                 /\ \A j \in 1..(k - 1) :
                        /\ Handle[Startup[j]] # None
                        /\ entry[Startup[j]] # None =>
                               Handle[Startup[j]] = entry[Startup[j]]
                 /\ \A j \in k..4 : Handle[Startup[j]] = None
        /\ \A k \in 1..4 :
             entry[Startup[k]] # None =>
                 /\ Count(trace, CreationCalls[Startup[k]]) = 0
                 /\ Handle[Startup[k]] = entry[Startup[k]]
        /\ FirstMissing <= 4 =>
             /\ Issued # <<>>
             /\ Issued[1].name = CreationCalls[Startup[FirstMissing]]
             /\ \A k \in FirstMissing..4 :
                    Count(trace, CreationCalls[Startup[k]]) <= 1

\* After a browser launch that raised, the next operation kept the driver
\* and started at the launch.
C25_Witness ==
    /\ Operated
    /\ previous = "other"
    /\ entry.playwright = Old
    /\ entry.browser = None
    /\ result.ensure = "returned"
    /\ playwright = Old
    /\ browser = New
    /\ Issued[1].name = "browser_type.launch"

\* C26: close_browser never creates a resource; on a handle whose four
\* references are all None it issues no engine call, leaves all four None
\* and returns success, so a second close_browser changes nothing.
C26_CloseOnEmptyHandle ==
    result.op = "close_browser" =>
        /\ \A k \in Kinds : Count(trace, CreationCalls[k]) = 0
        /\ \A i \in DOMAIN trace :
               trace[i].out = "assigned" => trace[i].on = None
        /\ \A k \in Kinds : Handle[k] \in {None, entry[k]}
        /\ AllNone(entry) =>
               /\ trace = <<>>
               /\ AllNone(Handle)
               /\ Envelope
               /\ result.status = "success"
               /\ _screenshot_cache = <<>>

\* A close_browser right after a close_browser that had released the chain.
C26_Witness ==
    /\ result.op = "close_browser"
    /\ previous = "close_browser"
    /\ AllNone(entry)
    /\ result.status = "success"
    /\ trace = <<>>

\* C27: after close_browser returns success the screenshot cache is empty;
\* when it returns an error envelope because a release raised, the cache is
\* as the call found it.
C27_CacheOnClose ==
    result.op = "close_browser" =>
        /\ result.status = "success" => _screenshot_cache = <<>>
        /\ (result.status = "error" /\ Faulted) =>
               _screenshot_cache = result.cached

\* A close_browser that failed on a handle with a capture in its cache.
C27_Witness ==
    /\ result.op = "close_browser"
    /\ result.status = "error"
    /\ Faulted
    /\ result.cached # <<>>
    /\ _screenshot_cache = result.cached

\* C28: with MAX_SCREENSHOTS 0 or negative, a take_screenshot whose capture
\* the engine returned still returns an error envelope, the eviction from
\* the empty cache having failed, and the cache stays empty: no screenshot
\* comes back as a success.
C28_NoCaptureWithoutRoom ==
    (module = "playwright_web_search_tool" /\ MAX_SCREENSHOTS <= 0) =>
        /\ _screenshot_cache = <<>>
        /\ result.op = "take_screenshot" =>
               /\ result.status # "success"
               /\ (\E i \in DOMAIN trace :
                      /\ trace[i].name \in {"page.screenshot", "element.screenshot"}
                      /\ trace[i].out = "returned") =>
                      /\ Envelope
                      /\ result.status = "error"
                      /\ result.error = Str("IndexError")

\* The engine returned the capture and the operation an error, under a
\* negative valve.
C28_Witness ==
    /\ module = "playwright_web_search_tool"
    /\ MAX_SCREENSHOTS = -1
    /\ result.op = "take_screenshot"
    /\ ~Faulted
    /\ Count(trace, "page.screenshot") = 1
    /\ result.status = "error"

\* C29 as stated: wait_for_element returns the 'Timeout' error result only
\* when the wait on the selector itself timed out, not for a timeout the
\* engine raised during _ensure_browser.
C29_TimeoutOnlyFromWait ==
    (result.op = "wait_for_element" /\ result.error = "Timeout") =>
        \E i \in DOMAIN trace :
            /\ trace[i].name = "page.wait_for_selector"
            /\ trace[i].out = "raised"
            /\ trace[i].exc = "TimeoutError"

\* C30 as stated: for every integer max_elements, 0 and negative values
\* included, extract_elements returns at most max(0, max_elements) records.
C30_AtMostLimit ==
    (result.op = "extract_elements" /\ result.status = "success") =>
        Len(result.payload.elements)
            <= (IF result.args.max_elements > 0 THEN result.args.max_elements ELSE 0)

-----------------------------------------------------------------------------
(* Two calls under way on one handle                                        *)

\* The modules whose operations are coroutines: the event loop runs one of
\* them at a time and switches only where the running one awaits.
EventLoopModules == {"playwright_async_tool", "playwright_web_search_tool"}

\* The two calls the host started together.
Tasks == {1, 2}

\* What each of them runs: an operation that awaits _ensure_browser and then
\* one call on the page, or the teardown.
ConcurrentOps == {"wait_for_element", "close_browser"}

\* The instance the engine creates on a creation call awaited by task t.
Made(t) == IF t = 1 THEN "new1" ELSE "new2"

\* What an awaited engine call does when the coroutine is resumed.
Answers == {"returned", "raised"}

\* What the creation of an instance of a kind can end in: the awaited call
\* returns or raises, and on a context that was returned the setting of the
\* default timeouts can raise.
Creations(kind) ==
    Answers \cup (IF kind = "context" THEN {"set_default_timeout raised"} ELSE {})

\* The place of a kind in an order of the four kinds.
Position(order, kind) == CHOOSE i \in 1..4 : order[i] = kind

\* _ensure_browser from its n-th test on: the first `if not self.<kind>`
\* that holds, 5 when none does.
Missing(h, n) ==
    IF \A k \in n..4 : h[Startup[k]] # None THEN 5
    ELSE CHOOSE k \in n..4 :
             /\ h[Startup[k]] = None
             /\ \A j \in n..(k - 1) : h[Startup[j]] # None

\* close_browser from its n-th test on: the first `if self.<kind>` that
\* holds, 5 when none does.
Held(h, n) ==
    IF \A k \in n..4 : h[Teardown[k]] = None THEN 5
    ELSE CHOOSE k \in n..4 :
             /\ h[Teardown[k]] # None
             /\ \A j \in n..(k - 1) : h[Teardown[j]] = None

\* A coroutine that ran to its return statement.
Finished(task, status) == [task EXCEPT !.at = "done", !.status = status]

\* An operation runs _ensure_browser from its n-th test up to the next
\* creation call it has to await; when nothing is missing any more
\* _ensure_browser returns and the operation awaits its call on self.page.
Ensuring(task, h, n) ==
    LET k == Missing(h, n)
    IN  [task EXCEPT !.at = IF k = 5 THEN "page.wait_for_selector" ELSE Startup[k]]

\* close_browser runs from its n-th test up to the next release it has to
\* await; when nothing is held any more it returns its success envelope.
Closing(task, h, n) ==
    LET k == Held(h, n)
    IN  IF k = 5 THEN Finished(task, "success") ELSE [task EXCEPT !.at = Teardown[k]]

\* The references after the running coroutine's assignments.
Store(h) ==
    /\ playwright' = h.playwright
    /\ browser' = h.browser
    /\ context' = h.context
    /\ page' = h.page

\* self._screenshot_cache.clear(), reached when close_browser succeeds.
Cleared(task) ==
    IF /\ task.op = "close_browser"
       /\ task.status = "success"
       /\ module = "playwright_web_search_tool"
    THEN <<>>
    ELSE _screenshot_cache

\* The event loop passes control to coroutine t, which runs up to its next
\* await or to its return.
Switch(t, task, h) ==
    /\ tasks' = [tasks EXCEPT ![t] = task]
    /\ Store(h)
    /\ _screenshot_cache' = Cleared(task)
    /\ UNCHANGED <<module, MAX_SCREENSHOTS, previous, entry, trace, result>>

\* The host starts two calls on the handle without awaiting the first: two
\* coroutines are scheduled, neither has run yet.
Spawn ==
    /\ \A t \in DOMAIN tasks : tasks[t].at = "done"
    /\ \E ops \in [Tasks -> ConcurrentOps] :
           tasks' = [t \in Tasks |->
                        [op |-> ops[t], at |-> "start", status |-> "", made |-> {}]]
    /\ Store([k \in Kinds |-> Aged(Handle[k])])
    /\ entry' = [k \in Kinds |-> Aged(Handle[k])]
    /\ UNCHANGED <<module, _screenshot_cache, MAX_SCREENSHOTS, previous, trace, result>>

\* Coroutine t runs for the first time: from the top of its try block to
\* its first await.
Start(t) ==
    /\ t \in DOMAIN tasks
    /\ tasks[t].at = "start"
    /\ Switch(t, IF tasks[t].op = "close_browser"
                 THEN Closing(tasks[t], Handle, 1)
                 ELSE Ensuring(tasks[t], Handle, 1),
              Handle)

\* The creation call coroutine t awaits inside _ensure_browser is over: the
\* instance is assigned to the reference whatever the reference holds by
\* now, and _ensure_browser goes on with its next test; a call that raised,
\* the setting of the default timeouts included, ends the operation in its
\* except clause.
Created(t) ==
    /\ t \in DOMAIN tasks
    /\ tasks[t].op # "close_browser"
    /\ tasks[t].at \in Kinds
    /\ LET kind == tasks[t].at
           h == [Handle EXCEPT ![kind] = Made(t)]
           task == [tasks[t] EXCEPT !.made = @ \cup {kind}]
       IN  \E answer \in Creations(kind) :
               CASE answer = "raised" ->
                        Switch(t, Finished(tasks[t], "error"), Handle)
                 [] answer = "set_default_timeout raised" ->
                        Switch(t, Finished(task, "error"), h)
                 [] OTHER ->
                        Switch(t, Ensuring(task, h, Position(Startup, kind) + 1), h)

\* The release coroutine t awaits inside close_browser is over: the
\* reference is set to None whatever it holds by now, and close_browser
\* goes on with its next test; a release that raised ends it in its except
\* clause.
Released(t) ==
    /\ t \in DOMAIN tasks
    /\ tasks[t].op = "close_browser"
    /\ tasks[t].at \in Kinds
    /\ LET kind == tasks[t].at
           h == [Handle EXCEPT ![kind] = None]
       IN  \E answer \in Answers :
               IF answer = "raised"
               THEN Switch(t, Finished(tasks[t], "error"), Handle)
               ELSE Switch(t, Closing(tasks[t], h, Position(Teardown, kind) + 1), h)

\* The call on the page coroutine t awaits is over: the operation returns
\* its success envelope, or its error envelope when the call raised.
Answered(t) ==
    /\ t \in DOMAIN tasks
    /\ tasks[t].at = "page.wait_for_selector"
    /\ \E answer \in Answers :
           Switch(t, Finished(tasks[t], IF answer = "raised" THEN "error" ELSE "success"),
                  Handle)

ConcurrentNext ==
    \/ Spawn
    \/ \E t \in Tasks : Start(t)
    \/ \E t \in Tasks : Created(t)
    \/ \E t \in Tasks : Released(t)
    \/ \E t \in Tasks : Answered(t)

\* A new handle of one of the event-loop modules.
ConcurrentInit == Init /\ module \in EventLoopModules

\* The handle of an event-loop module used by a host that starts calls two
\* at a time and awaits both before it starts the next two.
ConcurrentSpec == ConcurrentInit /\ [][ConcurrentNext]_vars

\* Two calls were started together and both have returned.
BothReturned == tasks # <<>> /\ \A t \in Tasks : tasks[t].at = "done"

\* The ownership chain: a page is referenced only together with the
\* context, the browser and the driver it belongs to.
Chain(h) ==
    h.page # None =>
        /\ h.context # None
        /\ h.browser # None
        /\ h.playwright # None

\* C21 as stated: when two operations are started together on a handle that
\* is not initialised, then under every interleaving at their await points
\* the driver is started at most once, the browser, the context and the
\* page are created at most once each, and once both have returned every
\* instance that was created is the one its reference holds.
C21_SingleCreation ==
    (/\ tasks # <<>>
     /\ AllNone(entry)
     /\ \A t \in Tasks : tasks[t].op # "close_browser") =>
        /\ \A k \in Kinds : Cardinality({t \in Tasks : k \in tasks[t].made}) <= 1
        /\ BothReturned =>
               \A t \in Tasks : \A k \in tasks[t].made : Handle[k] = Made(t)

\* C22 as stated: when close_browser and another operation were started
\* together on a handle whose references satisfied the ownership chain,
\* then once both have returned, however they interleaved at their await
\* points, the references satisfy the ownership chain: no page is
\* referenced while the context, the browser or the driver is None.
C22_ChainAfterTeardown ==
    (/\ BothReturned
     /\ Chain(entry)
     /\ \E t \in Tasks : tasks[t].op = "close_browser"
     /\ \E t \in Tasks : tasks[t].op # "close_browser") =>
        Chain(Handle)

====
